---- MODULE Spec2Model ----
(***************************************************************************)
(* Model of the DataDog error viewer (src/app.py): the ErrorTracker that   *)
(* ingests a CSV export of test failures, keeps the newest row per         *)
(* identity, merges the persisted "addressed" flags, and toggles a flag    *)
(* through the /api/toggle endpoint, rewriting the persisted JSON file.    *)
(*                                                                         *)
(* Strings are sequences of character codes (ASCII), so that identities    *)
(* are built by concatenation and compared as Python compares str.         *)
(***************************************************************************)
EXTENDS Integers, Sequences, FiniteSets, TLC

VARIABLES
    csvExists,        \* os.path.exists(self.csv_file)
    csv,              \* the rows csv.reader yields for the file, in file order
    pfile,            \* the contents of the persistence file on disk
    pc,               \* "new" (before ErrorTracker(...)), "ready", "crashed"
    addressed_errors, \* self.addressed_errors: dict, as <<key, value>> pairs in insertion order
    errors,           \* self.errors: list of ErrorData
    consumed,         \* number of rows the reader delivered in the last _load_errors
    readErr,          \* what ended the last read: "none", "io" (OSError), "decode" (UnicodeDecodeError)
    exc,              \* the exception that escaped the constructor: "none", "TypeError", "UnicodeDecodeError"
    ntoggles,         \* number of toggle requests served so far
    last,             \* the last toggle request since construction and what it saw
    resp,             \* the JSON response and status of the last toggle request
    writesOk,         \* every persistence write since construction succeeded
    prev,             \* the tracker's state just before the last restart
    allErrors,        \* errorViewer().allErrors: the records the page was rendered with
    filteredErrors,   \* errorViewer().filteredErrors
    currentPage,      \* errorViewer().currentPage
    pageSize,         \* errorViewer().pageSize
    lastNav,          \* the last changePage(page) call since the list was set, and the page it left
    threads           \* the request threads inside toggle_error: position, id, value set, text, return value

browser == <<allErrors, filteredErrors, currentPage, pageSize, lastNav>>

vars == <<csvExists, csv, pfile, pc, addressed_errors, errors, consumed, readErr,
          exc, ntoggles, last, resp, writesOk, prev, browser, threads>>

----------------------------------------------------------------------------
(* Bounds of the model *)

MaxRows == 3          \* rows of a CSV file under SpecLoad
MaxServeRows == 2     \* rows of a CSV file under Spec
MaxToggles == 2       \* toggle requests served
MaxListLen == 4       \* records of the list a page is rendered with, under SpecPages
MaxPageSize == 3      \* page sizes under SpecPages

----------------------------------------------------------------------------
(* Strings *)

NL == 10
Sep == <<58, 58>>                \* "::"
NoiseSig == <<82, 117>>          \* the noise signature, abbreviated to its first characters "Ru"
NoMessage == <<78, 111>>         \* "No error message", abbreviated to "No"

Min(a, b) == IF a < b THEN a ELSE b

\* Python's str < str: the first differing character decides, a proper prefix is smaller.
RECURSIVE StrLT(_, _)
StrLT(a, b) ==
    IF b = <<>> THEN FALSE
    ELSE IF a = <<>> THEN TRUE
    ELSE IF Head(a) # Head(b) THEN Head(a) < Head(b)
    ELSE StrLT(Tail(a), Tail(b))

\* Python's `sub in s`
Contains(s, sub) ==
    \E i \in 1..(Len(s) - Len(sub) + 1) : SubSeq(s, i, i + Len(sub) - 1) = sub

\* s.split("\n")[0]
FirstLine(s) ==
    IF \E i \in 1..Len(s) : s[i] = NL
    THEN LET i == CHOOSE i \in 1..Len(s) : s[i] = NL /\ \A j \in 1..(i - 1) : s[j] # NL
         IN SubSeq(s, 1, i - 1)
    ELSE s

----------------------------------------------------------------------------
(* dict[str, bool] as a sequence of <<key, value>> pairs in insertion order *)

Keys(d) == {d[i][1] : i \in 1..Len(d)}
Has(d, k) == k \in Keys(d)
IndexOf(d, k) == CHOOSE i \in 1..Len(d) : d[i][1] = k
\* d.get(k, default)
Get(d, k, default) == IF Has(d, k) THEN d[IndexOf(d, k)][2] ELSE default
\* d[k] = v
Put(d, k, v) ==
    IF Has(d, k) THEN [d EXCEPT ![IndexOf(d, k)] = <<k, v>>] ELSE Append(d, <<k, v>>)

----------------------------------------------------------------------------
(* Identities and the inputs of the model *)

FileA == <<97>>                  \* "a"
FileADot == <<97, 46>>           \* "a."
FileZ == <<122>>                 \* "z"
FileB == <<98>>                  \* "b"
NameT == <<116>>                 \* "t"

\* error_id = f"{test_file}::{test_name}"
ErrorId(file, name) == file \o Sep \o name

IdA == ErrorId(FileA, NameT)
IdADot == ErrorId(FileADot, NameT)
IdGhost == ErrorId(FileZ, NameT)   \* an identity no CSV row of the model carries
ToggleIds == {IdA, IdADot, IdGhost}

\* Column 0: a timestamp string. "naive" has no UTC offset, "Z" ends in Z,
\* "bad" is no ISO-8601 timestamp. t is the instant.
TsCell(kind, t) == [kind |-> kind, t |-> t]
\* Column 1: the JSON message. "malformed" is no JSON, "schema" is JSON that
\* lacks a required field, "ok" carries test.source.file, test.name, error.message.
JsonCell(kind, file, name, message) ==
    [kind |-> kind, file |-> file, name |-> name, message |-> message]
OkCell(file, name, message) == JsonCell("ok", file, name, message)

MsgE1 == <<69, 49>>                              \* "E1"
MsgE2 == <<69, 50, 10, 120>>                     \* "E2\nx"
MsgE3 == <<69, 51>>                              \* "E3"
MsgNoise == <<69, 10, 82, 117, 33>>              \* "E\nRu!": holds the noise signature

RowPool ==
    { << TsCell("naive", 1) >>,                                          \* fewer than 2 columns
      << TsCell("bad", 0), OkCell(FileA, NameT, MsgE1) >>,               \* unparsable timestamp
      << TsCell("naive", 1), JsonCell("malformed", <<>>, <<>>, <<>>) >>,
      << TsCell("naive", 1), JsonCell("schema", <<>>, <<>>, <<>>) >>,
      << TsCell("naive", 1), OkCell(FileA, NameT, MsgE1) >>,
      << TsCell("naive", 2), OkCell(FileA, NameT, MsgE2) >>,
      << TsCell("naive", 2), OkCell(FileA, NameT, MsgE3) >>,             \* same instant, other message
      << TsCell("Z", 3), OkCell(FileA, NameT, MsgE3) >>,                 \* with a UTC offset
      << TsCell("naive", 3), OkCell(FileA, NameT, MsgNoise) >>,          \* noise, newest
      << TsCell("naive", 1), OkCell(FileADot, NameT, <<>>) >> }          \* empty message

\* The rows of the CSV files behind a served tracker: a subset of RowPool
ServePool ==
    { << TsCell("naive", 1), OkCell(FileA, NameT, MsgE1) >>,
      << TsCell("naive", 2), OkCell(FileA, NameT, MsgE2) >>,
      << TsCell("naive", 3), OkCell(FileA, NameT, MsgNoise) >>,
      << TsCell("naive", 1), OkCell(FileADot, NameT, <<>>) >> }

\* A CSV export: the header line (column names: no timestamp, no JSON), then
\* one failure each of three tests
HeaderRow == << TsCell("bad", 0), JsonCell("malformed", <<>>, <<>>, <<>>) >>
StatsCsv ==
    << HeaderRow,
       << TsCell("naive", 1), OkCell(FileA, NameT, MsgE1) >>,
       << TsCell("naive", 1), OkCell(FileADot, NameT, <<>>) >>,
       << TsCell("naive", 2), OkCell(FileB, NameT, MsgE2) >> >>
\* The export cut after the header, or after any of its failures
StatsCsvs == {SubSeq(StatsCsv, 1, n) : n \in 1..Len(StatsCsv)}
StatsIds == {IdA, IdADot, ErrorId(FileB, NameT)}

RECURSIVE SeqsUpTo(_, _)
SeqsUpTo(S, n) ==
    IF n = 0 THEN {<<>>}
    ELSE LET shorter == SeqsUpTo(S, n - 1)
         IN shorter \cup {Append(s, x) : s \in {q \in shorter : Len(q) = n - 1}, x \in S}

\* The persistence file on disk: absent, or its text. An "object" text is a JSON
\* object whose members are the <<key, value>> pairs, in the order written.
PFile(kind, members) == [kind |-> kind, members |-> members]
PriorFiles ==
    { PFile("absent", <<>>),
      PFile("garbage", <<>>),                       \* not JSON
      PFile("nondict", <<>>),                       \* JSON, but not an object
      PFile("object", << <<IdA, TRUE>> >>),
      PFile("object", << <<IdADot, FALSE>>, <<IdGhost, TRUE>> >>) }

----------------------------------------------------------------------------
(* ErrorTracker._load_persistence *)

RECURSIVE DictOf(_)
\* from_json of a JSON object: a dict of its members, a repeated key keeping its last value
DictOf(members) ==
    IF members = <<>> THEN <<>>
    ELSE LET m == members[Len(members)]
         IN Put(DictOf(SubSeq(members, 1, Len(members) - 1)), m[1], m[2])

\* the file is never read: every start begins from an empty dict
LoadPersistenceEmpty(f) == <<>>

LoadPersistence(f) ==
    IF f.kind = "object" THEN DictOf(f.members)
    ELSE <<>>     \* absent, blank, invalid JSON (exception caught) or not a dict

\* to_json(self.addressed_errors, indent=2): the members in dict order
ToJson(d) == PFile("object", d)

RECURSIVE MembersLen(_)
\* Characters of the members of the text: newline, two spaces, "key": value
MembersLen(d) ==
    IF d = <<>> THEN 0
    ELSE 3 + (Len(Head(d)[1]) + 2) + 2 + (IF Head(d)[2] THEN 4 ELSE 5) + MembersLen(Tail(d))

\* Length of the text to_json(d, indent=2): {} for the empty dict, else the
\* members, one per line, a comma between them, and a newline before the }
JsonLen(d) == IF d = <<>> THEN 2 ELSE 1 + MembersLen(d) + (Len(d) - 1) + 2

\* Length of the text of a file a save has truncated and perhaps written
TextLen(f) == IF f.kind = "object" THEN JsonLen(f.members) ELSE 0

\* f.close() flushes the text to offset 0 of the file as it is by then: a text
\* shorter than what the file holds leaves the tail of the old text behind it
Flushed(f, d) == IF JsonLen(d) >= TextLen(f) THEN ToJson(d) ELSE PFile("garbage", <<>>)

\* _save_persistence. outcome: "ok"; "openfail": open(..., "w") raises OSError and the
\* file is untouched; "truncated": open truncated the file and f.write raised OSError.
\* Both failures are caught and printed.
SavePersistence(f, d, outcome) ==
    IF outcome = "ok" THEN ToJson(d)
    ELSE IF outcome = "openfail" THEN f
    ELSE PFile("blank", <<>>)

WriteOutcomes == {"ok", "openfail", "truncated"}

----------------------------------------------------------------------------
(* ErrorTracker._load_errors *)

\* datetime.fromisoformat(timestamp_str.replace("Z", "+00:00")): ok = FALSE is the
\* ValueError; a timestamp with an offset is timezone-aware, one without is naive.
ParseTimestamp(cell) ==
    IF cell.kind = "bad" THEN [ok |-> FALSE, aware |-> FALSE, t |-> 0]
    ELSE [ok |-> TRUE, aware |-> (cell.kind = "Z"), t |-> cell.t]

\* DataDogMessage.model_validate_json(row[1]) raises ValidationError
Invalid(cell) == cell.kind # "ok"

\* error_message.startswith(...) instead of `in`
IsNoisePrefix(message) == SubSeq(message, 1, Min(Len(message), Len(NoiseSig))) = NoiseSig
\* "RuntimeError: Working outside of application context." in error_message
IsNoise(message) == Contains(message, NoiseSig)

\* error_message.split("\n")[0] if error_message else "No error message"
Summary(message) == IF message = <<>> THEN NoMessage ELSE FirstLine(message)

\* ErrorData(...) of an accepted row
ErrorData(cell, ts, prior) ==
    LET id == ErrorId(cell.file, cell.name)
    IN [id |-> id, file |-> cell.file, test_name |-> cell.name,
        error_summary |-> Summary(cell.message), error_full |-> cell.message,
        addressed |-> Get(prior, id, FALSE),
        timestamp |-> [aware |-> ts.aware, t |-> ts.t]]

\* The row reaches the merge: it has 2 columns, its timestamp parses, its JSON
\* validates and its message is not noise.
Accepted(row) ==
    /\ Len(row) >= 2
    /\ ParseTimestamp(row[1]).ok
    /\ ~Invalid(row[2])
    /\ ~IsNoise(row[2].message)

\* timestamp > error_dict[error_id].timestamp raises TypeError when one datetime
\* is naive and the other aware
Incomparable(a, b) == a.aware # b.aware
\* the last row read wins, whatever its timestamp
NewerAlways(a, b) == TRUE
\* timestamp > error_dict[error_id].timestamp
Newer(a, b) == a.t > b.t

\* One iteration of the for loop on error_dict (a function from ids to ErrorData).
\* The result is the new error_dict and whether TypeError was raised.
ProcessRow(dict, row, prior) ==
    IF ~Accepted(row) THEN [dict |-> dict, raised |-> FALSE]
    ELSE LET data == ErrorData(row[2], ParseTimestamp(row[1]), prior)
             id == data.id
         IN IF id \notin DOMAIN dict
            THEN [dict |-> [k \in DOMAIN dict \cup {id} |-> IF k = id THEN data ELSE dict[k]],
                  raised |-> FALSE]
            ELSE IF Incomparable(data.timestamp, dict[id].timestamp)
            THEN [dict |-> dict, raised |-> TRUE]
            ELSE IF Newer(data.timestamp, dict[id].timestamp)
            THEN [dict |-> [dict EXCEPT ![id] = data], raised |-> FALSE]
            ELSE [dict |-> dict, raised |-> FALSE]

EmptyDict == [k \in {} |-> 0]

RECURSIVE RunLoop(_, _)
\* The for loop over the rows the reader delivers
RunLoop(rows, prior) ==
    IF rows = <<>> THEN [dict |-> EmptyDict, raised |-> FALSE]
    ELSE LET before == RunLoop(SubSeq(rows, 1, Len(rows) - 1), prior)
         IN IF before.raised THEN before
            ELSE ProcessRow(before.dict, rows[Len(rows)], prior)

RECURSIVE SortedByFile(_)
\* sorted by x.file instead of x.id
SortedByFile(S) ==
    IF S = {} THEN <<>>
    ELSE LET m == CHOOSE x \in S : \A y \in S \ {x} : ~StrLT(y.file, x.file)
         IN <<m>> \o SortedByFile(S \ {m})

RECURSIVE SortedById(_)
\* sorted(values, key=lambda x: x.id), the ids being distinct
SortedById(S) ==
    IF S = {} THEN <<>>
    ELSE LET m == CHOOSE x \in S : \A y \in S \ {x} : StrLT(x.id, y.id)
         IN <<m>> \o SortedById(S \ {m})

Values(dict) == {dict[k] : k \in DOMAIN dict}

\* A read that ends early: after `at` rows the reader raises; kind "io" is an OSError
\* (caught at line 177), kind "decode" a UnicodeDecodeError (not an IOError).
NoFail == [kind |-> "none", at |-> 0]
ReadFail(kind, at) == [kind |-> kind, at |-> at]
Delivered(rows, fail) == IF fail.kind = "none" THEN rows ELSE SubSeq(rows, 1, fail.at)

\* _load_errors on an existing file: the catalog it leaves in self.errors and the
\* exception that escapes it.
LoadErrors(rows, fail, prior) ==
    LET loop == RunLoop(Delivered(rows, fail), prior)
    IN IF loop.raised THEN [errors |-> <<>>, exc |-> "TypeError"]
       ELSE IF fail.kind = "decode" THEN [errors |-> <<>>, exc |-> "UnicodeDecodeError"]
       ELSE [errors |-> SortedById(Values(loop.dict)), exc |-> "none"]

----------------------------------------------------------------------------
(* ErrorTracker.toggle_error_status and the /api/toggle endpoint *)

\* marks the error addressed instead of flipping the stored value
ToggleValueSet(d, id) == TRUE
\* not self.addressed_errors[error_id] if the key is present, else True
ToggleValue(d, id) == IF Has(d, id) THEN ~Get(d, id, FALSE) ELSE TRUE

\* every record of the catalog takes the value, not the first with the id
UpdateRecordAll(errs, id, v) == [i \in 1..Len(errs) |-> [errs[i] EXCEPT !.addressed = v]]
\* the record of the catalog is left as it was
UpdateRecordSkipped(errs, id, v) == errs
\* for error in self.errors: if error.id == error_id: error.addressed = v; break
UpdateRecord(errs, id, v) ==
    IF \E i \in 1..Len(errs) : errs[i].id = id
    THEN LET i == CHOOSE i \in 1..Len(errs) :
                      errs[i].id = id /\ \A j \in 1..(i - 1) : errs[j].id # id
         IN [errs EXCEPT ![i].addressed = v]
    ELSE errs

\* toggle_error_status(error_id) with the given outcome of the file write. raised
\* tells whether an exception leaves the method: _save_persistence catches the
\* OSError of a failed write, and nothing else in the method raises.
ToggleErrorStatus(d, errs, f, id, outcome) ==
    LET v == ToggleValue(d, id)
        d2 == Put(d, id, v)
    IN [addressed_errors |-> d2,
        errors |-> UpdateRecord(errs, id, d2[IndexOf(d2, id)][2]),
        pfile |-> SavePersistence(f, d2, outcome),
        ret |-> d2[IndexOf(d2, id)][2],
        raised |-> FALSE]

RECURSIVE CountAddressed(_)
\* sum(1 for error in self.errors if error.addressed)
CountAddressed(errs) ==
    IF errs = <<>> THEN 0
    ELSE (IF Head(errs).addressed THEN 1 ELSE 0) + CountAddressed(Tail(errs))

\* round(num / den * 100, 1), in tenths of a percent. A value half-way between
\* two tenths needs den to be a multiple of 16; it goes to the even tenth.
RoundPercent(num, den) ==
    LET q == (1000 * num) \div den
        r == (1000 * num) % den
    IN IF 2 * r < den THEN q
       ELSE IF 2 * r > den THEN q + 1
       ELSE IF q % 2 = 0 THEN q ELSE q + 1

\* the percentage cut off after its first decimal instead of rounded
GetStatsTruncated(errs) ==
    LET total == Len(errs)
        addressed == CountAddressed(errs)
    IN [total |-> total, addressed |-> addressed, unaddressed |-> total - addressed,
        progress_percent |-> IF total > 0 THEN (1000 * addressed) \div total ELSE 0]
\* get_stats(); progress_percent is in tenths of a percent
GetStats(errs) ==
    LET total == Len(errs)
        addressed == CountAddressed(errs)
    IN [total |-> total, addressed |-> addressed, unaddressed |-> total - addressed,
        progress_percent |-> IF total > 0 THEN RoundPercent(addressed, total) ELSE 0]

\* toggle_error: the jsonify(...) of the try branch with status 200, or of the
\* except branch with status 500
Response(call, id) ==
    IF call.raised
    THEN [valid |-> TRUE, success |-> FALSE, error_id |-> <<>>, addressed |-> FALSE, status |-> 500]
    ELSE [valid |-> TRUE, success |-> TRUE, error_id |-> id, addressed |-> call.ret, status |-> 200]

NoResponse == [valid |-> FALSE, success |-> FALSE, error_id |-> <<>>, addressed |-> FALSE, status |-> 0]

\* The flags of the records of a catalog that carry the id (none when it has no such record)
FlagsOf(errs, id) == {errs[i].addressed : i \in {j \in 1..Len(errs) : errs[j].id = id}}

NoNav == [valid |-> FALSE, page |-> 0, from |-> 0]
\* The threads of the development server that serve toggle requests
Threads == {1, 2}
Idle == [pc |-> "idle", id |-> <<>>, set |-> FALSE, buf |-> <<>>, ret |-> FALSE]
NoThreads == [t \in Threads |-> Idle]
NoCall == [valid |-> FALSE, id |-> <<>>, pre |-> FALSE, preCat |-> {}, outcome |-> "ok"]
NoPrev == [valid |-> FALSE, errors |-> <<>>, writesOk |-> TRUE, readErr |-> "none"]

----------------------------------------------------------------------------
(* errorViewer(): the list and its pages in the browser *)

PageSize == 50

Max(a, b) == IF a > b THEN a ELSE b

\* Array.prototype.slice(start, end): a negative index counts from the end, and
\* both are clamped to the array
Slice(list, start, end) ==
    LET n == Len(list)
        from == IF start < 0 THEN Max(n + start, 0) ELSE Min(start, n)
        to == IF end < 0 THEN Max(n + end, 0) ELSE Min(end, n)
    IN SubSeq(list, from + 1, to)

\* start = page * pageSize: the pages are counted from 0
PaginatedFromZero(list, page, size) ==
    IF list = <<>> THEN <<>> ELSE Slice(list, page * size, page * size + size)

\* get paginatedErrors()
PaginatedErrors(list, page, size) ==
    IF list = <<>> THEN <<>>
    ELSE LET start == (page - 1) * size
         IN Slice(list, start, start + size)

\* get totalPages(): Math.ceil(filteredErrors.length / pageSize)
TotalPages(list, size) == (Len(list) + size - 1) \div size

----------------------------------------------------------------------------
(* The state machine *)

InitServer(csvs) ==
    /\ csvExists \in BOOLEAN
    /\ csv \in (IF csvExists THEN csvs ELSE {<<>>})
    /\ pfile \in PriorFiles
    /\ pc = "new"
    /\ addressed_errors = <<>>
    /\ errors = <<>>
    /\ consumed = 0
    /\ readErr = "none"
    /\ exc = "none"
    /\ ntoggles = 0
    /\ last = NoCall
    /\ resp = NoResponse
    /\ threads = NoThreads
    /\ writesOk = TRUE
    /\ prev = NoPrev

\* The data of errorViewer() before init(): no page is followed
NoBrowser ==
    /\ allErrors = <<>>
    /\ filteredErrors = <<>>
    /\ currentPage = 1
    /\ pageSize = PageSize
    /\ lastNav = NoNav

InitWith(csvs) == InitServer(csvs) /\ NoBrowser

\* A tracker that goes on to serve toggle requests
Init == InitWith(SeqsUpTo(ServePool, MaxServeRows))

\* Ingestion over the full pool of rows
InitLoad == InitWith(SeqsUpTo(RowPool, MaxRows))

Unserved == UNCHANGED <<csvExists, csv, pfile, ntoggles, last, resp, writesOk, prev, browser, threads>>

\* ErrorTracker(CSV_FILE, PERSISTENCE_FILE) when the CSV file does not exist:
\* _load_errors returns at line 97 and self.errors stays [].
ConstructNoCsv ==
    /\ pc = "new"
    /\ ~csvExists
    /\ addressed_errors' = LoadPersistence(pfile)
    /\ errors' = <<>>
    /\ consumed' = 0
    /\ readErr' = "none"
    /\ exc' = "none"
    /\ pc' = "ready"
    /\ Unserved

\* The rows read when the loop over `rows` ends: all of them, or those up to the
\* row at which TypeError is raised.
RowsRead(rows, prior) ==
    IF RunLoop(rows, prior).raised
    THEN CHOOSE n \in 1..Len(rows) :
            /\ RunLoop(SubSeq(rows, 1, n), prior).raised
            /\ ~RunLoop(SubSeq(rows, 1, n - 1), prior).raised
    ELSE Len(rows)

\* The constructor on an existing CSV file, the read ending as `fail` says.
ConstructWith(fail) ==
    LET prior == LoadPersistence(pfile)
        r == LoadErrors(csv, fail, prior)
    IN /\ addressed_errors' = prior
       /\ errors' = r.errors
       /\ consumed' = RowsRead(Delivered(csv, fail), prior)
       /\ readErr' = (IF r.exc = "TypeError" THEN "none" ELSE fail.kind)
       /\ exc' = r.exc
       /\ pc' = (IF r.exc = "none" THEN "ready" ELSE "crashed")
       /\ Unserved

\* ErrorTracker(CSV_FILE, PERSISTENCE_FILE), the whole file being read
ConstructLoad ==
    /\ pc = "new"
    /\ csvExists
    /\ ConstructWith(NoFail)

\* ErrorTracker(CSV_FILE, PERSISTENCE_FILE), the read failing after some rows
ConstructReadFails ==
    /\ pc = "new"
    /\ csvExists
    /\ \E kind \in {"io", "decode"}, at \in 0..Len(csv) :
          /\ ~RunLoop(SubSeq(csv, 1, at), LoadPersistence(pfile)).raised
          /\ ConstructWith(ReadFail(kind, at))

\* POST /api/toggle/<error_id>. The model serves up to MaxToggles requests in the
\* first lifetime of the process and follows it through one restart.
Toggle(id, outcome) ==
    /\ pc = "ready"
    /\ ntoggles < MaxToggles
    /\ ~prev.valid
    /\ LET call == ToggleErrorStatus(addressed_errors, errors, pfile, id, outcome)
       IN /\ addressed_errors' = call.addressed_errors
          /\ errors' = call.errors
          /\ pfile' = call.pfile
          /\ resp' = Response(call, id)
          /\ last' = [valid |-> TRUE, id |-> id,
                      pre |-> Get(addressed_errors, id, FALSE),
                      preCat |-> FlagsOf(errors, id),
                      outcome |-> outcome]
    /\ ntoggles' = ntoggles + 1
    /\ writesOk' = (writesOk /\ outcome = "ok")
    /\ UNCHANGED <<csvExists, csv, pc, consumed, readErr, exc, prev, browser, threads>>

\* The process ends and is started again on the same CSV and persistence files
Restart ==
    /\ pc = "ready"
    /\ ~prev.valid
    /\ prev' = [valid |-> TRUE, errors |-> errors, writesOk |-> writesOk, readErr |-> readErr]
    /\ pc' = "new"
    /\ addressed_errors' = <<>>
    /\ errors' = <<>>
    /\ consumed' = 0
    /\ readErr' = "none"
    /\ exc' = "none"
    /\ last' = NoCall
    /\ resp' = NoResponse
    /\ writesOk' = TRUE
    /\ UNCHANGED <<csvExists, csv, pfile, ntoggles, browser, threads>>

Next ==
    \/ ConstructNoCsv
    \/ ConstructLoad
    \/ ConstructReadFails
    \/ \E id \in ToggleIds, outcome \in WriteOutcomes : Toggle(id, outcome)
    \/ Restart

Spec == Init /\ [][Next]_vars

\* Construction alone, over every CSV file of up to MaxRows rows of RowPool
NextLoad ==
    \/ ConstructNoCsv
    \/ ConstructLoad
    \/ ConstructReadFails

SpecLoad == InitLoad /\ [][NextLoad]_vars

\* The tracker over an export of up to three failures, its statistics read
\* between toggles
InitStats == InitWith(StatsCsvs)

NextStats ==
    \/ ConstructNoCsv
    \/ ConstructLoad
    \/ ConstructReadFails
    \/ \E id \in StatsIds, outcome \in WriteOutcomes : Toggle(id, outcome)
    \/ Restart

SpecStats == InitStats /\ [][NextStats]_vars

----------------------------------------------------------------------------
(* Two toggle requests on the threads of the server (app.run serves each     *)
(* request on a thread of its own), interleaved between the statements of    *)
(* toggle_error_status and _save_persistence. Every write succeeds.          *)

Others == <<csvExists, csv, pc, consumed, readErr, exc, ntoggles, last, resp,
            writesOk, prev, browser>>

At(t, where) == pc = "ready" /\ threads[t].pc = where
Goes(t, where) == threads' = [threads EXCEPT ![t].pc = where]

\* lines 185-188: the mapping takes the toggled value of error_id
StepMapping(t, id) ==
    /\ At(t, "idle")
    /\ addressed_errors' = Put(addressed_errors, id, ToggleValue(addressed_errors, id))
    /\ threads' = [threads EXCEPT ![t].pc = "record", ![t].id = id,
                                  ![t].set = ToggleValue(addressed_errors, id)]
    /\ UNCHANGED <<errors, pfile, Others>>

\* lines 191-194: the record takes the value the mapping holds by now
StepRecord(t) ==
    /\ At(t, "record")
    /\ errors' = UpdateRecord(errors, threads[t].id,
                              Get(addressed_errors, threads[t].id, FALSE))
    /\ Goes(t, "open")
    /\ UNCHANGED <<addressed_errors, pfile, Others>>

\* line 85: open(self.persistence_file, "w") creates or truncates the file
StepOpen(t) ==
    /\ At(t, "open")
    /\ pfile' = PFile("blank", <<>>)
    /\ Goes(t, "serialize")
    /\ UNCHANGED <<addressed_errors, errors, Others>>

\* line 88: to_json(self.addressed_errors, indent=2) of the mapping as it is by now
StepSerialize(t) ==
    /\ At(t, "serialize")
    /\ threads' = [threads EXCEPT ![t].pc = "write", ![t].buf = addressed_errors]
    /\ UNCHANGED <<addressed_errors, errors, pfile, Others>>

\* line 89: f.write(...) leaves the text in the buffer of the file object
StepWrite(t) ==
    /\ At(t, "write")
    /\ Goes(t, "close")
    /\ UNCHANGED <<addressed_errors, errors, pfile, Others>>

\* end of the with block: f.close() flushes the buffer to the file
StepClose(t) ==
    /\ At(t, "close")
    /\ pfile' = Flushed(pfile, threads[t].buf)
    /\ Goes(t, "return")
    /\ UNCHANGED <<addressed_errors, errors, Others>>

\* line 197: return self.addressed_errors[error_id], the value held by now
StepReturn(t) ==
    /\ At(t, "return")
    /\ threads' = [threads EXCEPT ![t].pc = "done",
                                  ![t].ret = Get(addressed_errors, threads[t].id, FALSE)]
    /\ UNCHANGED <<addressed_errors, errors, pfile, Others>>

InitConc == InitWith(StatsCsvs)

NextConc ==
    \/ ConstructNoCsv
    \/ ConstructLoad
    \/ \E t \in Threads :
          \/ \E id \in ToggleIds : StepMapping(t, id)
          \/ StepRecord(t)
          \/ StepOpen(t)
          \/ StepSerialize(t)
          \/ StepWrite(t)
          \/ StepClose(t)
          \/ StepReturn(t)

SpecConc == InitConc /\ [][NextConc]_vars

----------------------------------------------------------------------------
(* The page in the browser, given the list of records it was rendered with.  *)
(* The records are numbered by their place in the rendered catalog; the      *)
(* server's variables play no part and keep their initial values.            *)

RECURSIVE Kept(_, _)
\* allErrors.filter(...): the records of the list that are in `keep`, in order
Kept(list, keep) ==
    IF list = <<>> THEN <<>>
    ELSE LET rest == Kept(SubSeq(list, 1, Len(list) - 1), keep)
         IN IF list[Len(list)] \in keep THEN Append(rest, list[Len(list)]) ELSE rest

\* The state after init(): the list as rendered, unfiltered, on page 1
InitPages ==
    /\ InitServer({<<>>})
    /\ ~csvExists
    /\ pfile = PFile("absent", <<>>)
    /\ \E n \in 0..MaxListLen : allErrors = [i \in 1..n |-> i]
    /\ filteredErrors = allErrors
    /\ currentPage = 1
    /\ pageSize \in 1..MaxPageSize
    /\ lastNav = NoNav

Server == <<csvExists, csv, pfile, pc, addressed_errors, errors, consumed, readErr,
            exc, ntoggles, last, resp, writesOk, prev, threads>>

\* filterErrors(): the search and status filters keep the records of `keep`
FilterErrors(keep) ==
    /\ filteredErrors' = Kept(allErrors, keep)
    /\ currentPage' = 1
    /\ lastNav' = NoNav
    /\ UNCHANGED <<allErrors, pageSize, Server>>

\* changePage(page)
ChangePage(page) ==
    /\ currentPage' = (IF page >= 1 /\ page <= TotalPages(filteredErrors, pageSize)
                       THEN page ELSE currentPage)
    /\ lastNav' = [valid |-> TRUE, page |-> page, from |-> currentPage]
    /\ UNCHANGED <<allErrors, filteredErrors, pageSize, Server>>

NextPages ==
    \/ \E keep \in SUBSET (1..MaxListLen) : FilterErrors(keep)
    \/ \E page \in (-2)..(MaxListLen + 1) : ChangePage(page)

SpecPages == InitPages /\ [][NextPages]_vars

----------------------------------------------------------------------------
(* Properties *)

IdsOf(errs) == {errs[i].id : i \in 1..Len(errs)}
AcceptedRows(rows) == {i \in 1..Len(rows) : Accepted(rows[i])}
RowId(row) == ErrorId(row[2].file, row[2].name)
RowTime(row) == ParseTimestamp(row[1])

\* The rows the last _load_errors read from the file
RowsOfLoad == IF readErr = "none" /\ exc = "none" THEN csv ELSE SubSeq(csv, 1, consumed)

\* C1: once the tracker is built, and after any toggles, the catalog holds one
\* record per identity file::name, its identities are exactly those of the rows
\* read that pass timestamp parsing and validation and are not noise, and the
\* records are in strictly ascending order of identity.
C1_CatalogIdentities ==
    pc = "ready" =>
        /\ \A i, j \in 1..Len(errors) : i < j => StrLT(errors[i].id, errors[j].id)
        /\ \A i \in 1..Len(errors) : errors[i].id = errors[i].file \o Sep \o errors[i].test_name
        /\ IdsOf(errors) = {RowId(RowsOfLoad[i]) : i \in AcceptedRows(RowsOfLoad)}

\* C1 witness: a served tracker whose CSV held two accepted rows of one identity
\* and a row of another, after a toggle
C1_Witness ==
    /\ pc = "ready"
    /\ ntoggles > 0
    /\ Len(errors) = 1
    /\ Cardinality(AcceptedRows(csv)) = 2

RowOrders ==
    [n \in 0..MaxRows |-> {f \in [1..n -> 1..n] : \A i, j \in 1..n : i # j => f[i] # f[j]}]
Permuted(rows, f) == [i \in 1..Len(rows) |-> rows[f[i]]]

\* No two accepted rows of one identity carry the same timestamp
DistinctTimes(rows) ==
    \A i, j \in AcceptedRows(rows) :
        (i # j /\ RowId(rows[i]) = RowId(rows[j])) => RowTime(rows[i]) # RowTime(rows[j])

\* C2: the record kept for an identity has the summary and full message of an
\* accepted row with the greatest timestamp of that identity, and when the
\* timestamps of an identity differ, every order of the rows gives the same catalog.
C2_MergeDeterminism ==
    pc = "ready" =>
        /\ \A r \in 1..Len(errors) :
              \E k \in AcceptedRows(RowsOfLoad) :
                 /\ RowId(RowsOfLoad[k]) = errors[r].id
                 /\ errors[r].error_full = RowsOfLoad[k][2].message
                 /\ errors[r].error_summary =
                       (IF RowsOfLoad[k][2].message = <<>> THEN NoMessage
                        ELSE FirstLine(RowsOfLoad[k][2].message))
                 /\ errors[r].timestamp.t = RowTime(RowsOfLoad[k]).t
                 /\ \A i \in AcceptedRows(RowsOfLoad) :
                       RowId(RowsOfLoad[i]) = errors[r].id
                          => RowTime(RowsOfLoad[i]).t <= RowTime(RowsOfLoad[k]).t
        /\ DistinctTimes(RowsOfLoad) =>
              \A f \in RowOrders[Len(RowsOfLoad)] :
                 LoadErrors(Permuted(RowsOfLoad, f), NoFail, addressed_errors)
                    = [errors |-> errors, exc |-> "none"]

\* C2 witness: the newer of two rows of one identity comes first in the file and is kept
C2_Witness ==
    /\ pc = "ready"
    /\ Len(csv) >= 2
    /\ AcceptedRows(csv) = 1..Len(csv)
    /\ RowId(csv[1]) = RowId(csv[2])
    /\ RowTime(csv[1]).t > RowTime(csv[2]).t
    /\ Len(errors) = 1
    /\ errors[1].error_full = csv[1][2].message

NoiseRow(row) == Len(row) >= 2 /\ row[2].kind = "ok" /\ Contains(row[2].message, NoiseSig)
RECURSIVE WithoutNoise(_)
WithoutNoise(rows) ==
    IF rows = <<>> THEN <<>>
    ELSE LET rest == WithoutNoise(SubSeq(rows, 1, Len(rows) - 1))
         IN IF NoiseRow(rows[Len(rows)]) THEN rest ELSE Append(rest, rows[Len(rows)])

\* C3: no record of the catalog carries a noise message, and the outcome of
\* ingestion (the catalog, or the exception) is the outcome on the same rows
\* with every noise row removed.
C3_NoiseExclusion ==
    (pc # "new" /\ exc # "UnicodeDecodeError") =>
        /\ \A r \in 1..Len(errors) : ~Contains(errors[r].error_full, NoiseSig)
        /\ LoadErrors(WithoutNoise(RowsOfLoad), NoFail, addressed_errors)
              = [errors |-> errors, exc |-> exc]

\* C3 witness: a noise row with the newest timestamp of an identity that also has
\* an accepted row
C3_Witness ==
    /\ pc = "ready"
    /\ Len(errors) = 1
    /\ \E i \in 1..Len(csv) :
          /\ NoiseRow(csv[i])
          /\ RowTime(csv[i]).ok
          /\ RowId(csv[i]) = errors[1].id
          /\ RowTime(csv[i]).t > errors[1].timestamp.t

\* A step that serves one toggle request
ToggleStep == ntoggles' = ntoggles + 1

\* C4: a toggle of an identity that is no key of addressed_errors returns and
\* stores TRUE; a toggle of a key returns and stores the negation of its value;
\* for identities in the catalog and for those outside it alike.
C4_ToggleLaw ==
    [][ToggleStep =>
          LET id == last'.id
              expected == IF id \in {addressed_errors[i][1] : i \in 1..Len(addressed_errors)}
                          THEN \E i \in 1..Len(addressed_errors) :
                                  addressed_errors[i] = <<id, FALSE>>
                          ELSE TRUE
          IN /\ resp'.success
             /\ resp'.addressed = expected
             /\ \E i \in 1..Len(addressed_errors') : addressed_errors'[i] = <<id, expected>>
             /\ \A i \in 1..Len(addressed_errors') :
                   addressed_errors'[i][1] = id => addressed_errors'[i][2] = expected]_vars

\* C4 witness: an identity outside the catalog, already a key, is toggled to FALSE
C4_Witness ==
    /\ pc = "ready"
    /\ last.valid
    /\ last.id = IdGhost
    /\ last.pre
    /\ ~resp.addressed
    /\ IdGhost \notin IdsOf(errors)

\* C5: the second of two successive toggles of one identity returns its flag, in
\* the mapping (an absent key read as FALSE) and in the catalog record, to the
\* value before the first; and after it the file is a JSON object that holds one
\* member for the identity, with that value.
C5_DoubleToggle ==
    [][(ToggleStep /\ last.valid /\ last'.id = last.id) =>
          LET id == last.id
          IN /\ Get(addressed_errors', id, FALSE) = last.pre
             /\ FlagsOf(errors', id) = last.preCat
             /\ resp'.addressed = last.pre
             /\ pfile'.kind = "object"
             /\ Cardinality({i \in 1..Len(pfile'.members) : pfile'.members[i][1] = id}) = 1
             /\ \E i \in 1..Len(pfile'.members) : pfile'.members[i] = <<id, last.pre>>]_vars

\* C6: after construction and after every toggle, each record's flag is
\* addressed_errors.get(id, False); with no persistence file, every record
\* starts with its flag FALSE.
C6_CacheConsistency ==
    pc = "ready" =>
        /\ \A r \in 1..Len(errors) :
              errors[r].addressed = Get(addressed_errors, errors[r].id, FALSE)
        /\ (pfile.kind = "absent" /\ ~last.valid) =>
              \A r \in 1..Len(errors) : ~errors[r].addressed

\* C6 witness: a catalog of two records, the second one toggled to TRUE
C6_Witness ==
    /\ pc = "ready"
    /\ last.valid
    /\ Len(errors) = 2
    /\ last.id = errors[2].id
    /\ errors[2].addressed
    /\ ~errors[1].addressed

\* C7: after a toggle whose write succeeds the file parses to the in-memory
\* mapping; and after a restart that follows only successful writes, every record
\* has the flag its identity had just before the restart (the catalog is the
\* same when both reads of the CSV were complete).
C7_Durability ==
    pc = "ready" =>
        /\ (last.valid /\ last.outcome = "ok") =>
              /\ pfile.kind = "object"
              /\ DictOf(pfile.members) = addressed_errors
        /\ (prev.valid /\ prev.writesOk) =>
              /\ \A r \in 1..Len(errors) : \A q \in 1..Len(prev.errors) :
                    errors[r].id = prev.errors[q].id
                       => errors[r].addressed = prev.errors[q].addressed
              /\ (readErr = "none" /\ prev.readErr = "none") => errors = prev.errors

\* C7 witness: restarted after toggles that were all written, a record being addressed
C7_Witness ==
    /\ pc = "ready"
    /\ prev.valid /\ prev.writesOk
    /\ ntoggles > 0
    /\ pfile.kind = "object"
    /\ \E r \in 1..Len(errors) : errors[r].addressed /\ errors[r].id = IdA
    /\ LoadPersistence(PFile("absent", <<>>)) # addressed_errors

\* C8: when the write of the persistence file fails during a toggle, the
\* endpoint answers success = false with status 500, and the toggle has taken
\* effect in memory.
C8_WriteFailureSurfaced ==
    (pc = "ready" /\ last.valid /\ last.outcome # "ok") =>
        /\ ~resp.success
        /\ resp.status = 500
        /\ Get(addressed_errors, last.id, FALSE) = ~last.pre

\* The rows that reach the merge
RowsThatPass(rows) == SelectSeq(rows, Accepted)

\* C9: whatever the rows (short rows, unparsable timestamps, malformed or invalid
\* JSON, timestamps with and without a UTC offset), when the file is read to its
\* end the constructor does not raise and the catalog is the one of the rows
\* that pass.
C9_NoRowAborts ==
    (pc # "new" /\ csvExists /\ readErr = "none") =>
        /\ pc = "ready"
        /\ exc = "none"
        /\ errors = LoadErrors(RowsThatPass(csv), NoFail, addressed_errors).errors

\* C10: when the CSV file is absent, or reading it fails at any point, the
\* constructor completes and the catalog is empty.
C10_FileFailureEmpty ==
    (pc # "new" /\ (~csvExists \/ readErr # "none")) =>
        /\ pc = "ready"
        /\ errors = <<>>

\* C11: the first row of the CSV file (the header) never contributes a record:
\* the catalog is the one of the rows after the first, whatever the first row
\* holds, and a file of one row gives an empty catalog.
C11_HeaderSkipped ==
    (pc = "ready" /\ csvExists /\ readErr = "none") =>
        /\ csv # <<>> => errors = LoadErrors(Tail(csv), NoFail, addressed_errors).errors
        /\ Len(csv) = 1 => errors = <<>>

RECURSIVE PagesUpTo(_, _, _)
\* The pages 1..k of the list, one after the other
PagesUpTo(list, k, size) ==
    IF k = 0 THEN <<>>
    ELSE PagesUpTo(list, k - 1, size) \o PaginatedErrors(list, k, size)

\* totalPages is ceil(n / pageSize), the pages 1..totalPages give the list back
\* and none is longer than pageSize
PagesCoverList ==
    LET n == Len(filteredErrors)
        pages == TotalPages(filteredErrors, pageSize)
    IN /\ pages * pageSize >= n
       /\ (pages - 1) * pageSize < n \/ (n = 0 /\ pages = 0)
       /\ PagesUpTo(filteredErrors, pages, pageSize) = filteredErrors
       /\ \A k \in 1..pages :
             /\ Len(PaginatedErrors(filteredErrors, k, pageSize)) <= pageSize
             /\ PaginatedErrors(filteredErrors, k, pageSize) # <<>>

\* The page on display
PageShown == PaginatedErrors(filteredErrors, currentPage, pageSize)
AskedOutside ==
    lastNav.valid /\ lastNav.page \notin 1..TotalPages(filteredErrors, pageSize)

\* C12: totalPages = ceil(n / pageSize) (0 for an empty list), the pages
\* 1..totalPages give the list back, no page is longer than pageSize, and a
\* page number outside 1..totalPages yields an empty page.
C12_PaginationLaw ==
    /\ PagesCoverList
    /\ AskedOutside => PageShown = <<>>

\* C12, amended: the same, but a changePage to a page number outside
\* 1..totalPages is ignored: the current page stays on display without error.
\* The page on display is empty only when the list is empty (page 1 of 0).
\* The slice itself is empty for page 0 and for every page past totalPages.
C12_PaginationIgnoresOutside ==
    /\ PagesCoverList
    /\ lastNav.valid =>
          currentPage = (IF AskedOutside THEN lastNav.from ELSE lastNav.page)
    /\ \/ currentPage \in 1..TotalPages(filteredErrors, pageSize)
       \/ filteredErrors = <<>> /\ currentPage = 1
    /\ PageShown = <<>> <=> filteredErrors = <<>>
    /\ \A p \in {0} \cup (TotalPages(filteredErrors, pageSize) + 1)..(MaxListLen + 1) :
          PaginatedErrors(filteredErrors, p, pageSize) = <<>>

\* C12 witness: on the short last page of a list of several pages, a page past
\* the end was asked for and the last page is still on display
C12_Witness ==
    /\ AskedOutside
    /\ lastNav.page > TotalPages(filteredErrors, pageSize)
    /\ currentPage = TotalPages(filteredErrors, pageSize)
    /\ currentPage >= 2
    /\ Len(PageShown) \in 1..(pageSize - 1)
    /\ Len(filteredErrors) < Len(allErrors)

\* The statistics the next call of get_stats returns in this state
Stats == GetStats(errors)
Abs(x) == IF x < 0 THEN -x ELSE x

StatsOfCatalog ==
    /\ Stats.total = Len(errors)
    /\ Stats.addressed = Cardinality({i \in 1..Len(errors) : errors[i].addressed})
    /\ Stats.unaddressed = Stats.total - Stats.addressed
    /\ Stats.total = 0 => Stats.progress_percent = 0
    /\ Stats.total > 0 =>
          2 * Abs(Stats.progress_percent * Stats.total - 1000 * Stats.addressed) <= Stats.total
    /\ (pc = "ready" /\ csvExists /\ csv = <<HeaderRow>>) =>
          Stats = [total |-> 0, addressed |-> 0, unaddressed |-> 0, progress_percent |-> 0]

\* C13: in every state get_stats returns total = number of catalog records,
\* addressed = number of records whose flag is true, unaddressed = total -
\* addressed and progress_percent = 0 when total = 0, else addressed / total * 100
\* rounded to one decimal; a toggle of an identity in the catalog changes the
\* addressed count by exactly 1 and leaves total unchanged; a CSV that holds
\* only its header gives all four values 0.
C13_StatsPureView ==
    /\ []StatsOfCatalog
    /\ [][(ToggleStep /\ last'.id \in IdsOf(errors)) =>
             /\ Abs(Stats'.addressed - Stats.addressed) = 1
             /\ Stats'.total = Stats.total]_vars

\* C13 witness: a toggle of a test of a three-record catalog has just brought the
\* statistics to 2 of 3 addressed, 66.7 percent
C13_Witness ==
    /\ last.valid /\ last.id \in IdsOf(errors)
    /\ Stats = [total |-> 3, addressed |-> 2, unaddressed |-> 1, progress_percent |-> 667]

\* A record with its flag blanked: file, test_name, summary, message, timestamp
NonFlag(e) == [e EXCEPT !.addressed = FALSE]

\* C14: toggle_error_status(id) changes nothing but id's own flag: every other
\* key of the mapping keeps its value and no key is removed, every catalog record
\* with another identity is unchanged, the catalog's membership, order and
\* non-flag fields are unchanged; when id is not in the catalog, the catalog is
\* unchanged, the call still succeeds, and the mapping records id.
C14_ToggleFrame ==
    [][ToggleStep =>
          LET id == last'.id IN
          /\ Keys(addressed_errors) \subseteq Keys(addressed_errors')
          /\ Keys(addressed_errors') = Keys(addressed_errors) \cup {id}
          /\ \A k \in Keys(addressed_errors) \ {id} :
                /\ Get(addressed_errors', k, FALSE) = Get(addressed_errors, k, FALSE)
                /\ IndexOf(addressed_errors', k) = IndexOf(addressed_errors, k)
          /\ Len(errors') = Len(errors)
          /\ \A i \in 1..Len(errors) :
                /\ NonFlag(errors'[i]) = NonFlag(errors[i])
                /\ errors[i].id # id => errors'[i] = errors[i]
          /\ id \notin IdsOf(errors) =>
                /\ errors' = errors
                /\ resp'.success /\ resp'.status = 200 /\ resp'.error_id = id
                /\ Has(addressed_errors', id)
          /\ UNCHANGED <<csvExists, csv, pc, consumed, readErr, exc>>]_vars

\* C14 witness: a toggle of an identity the catalog lacks has succeeded, with a
\* catalog of two records, one of them addressed, and a mapping of other keys
C14_Witness ==
    /\ last.valid /\ last.id \notin IdsOf(errors)
    /\ resp.success /\ resp.addressed
    /\ Len(errors) = 2 /\ \E i \in 1..2 : errors[i].addressed
    /\ Cardinality(Keys(addressed_errors)) >= 2

BothReturned == \A t \in Threads : threads[t].pc = "done"

\* C15: once two concurrent toggle requests have both returned, the persisted
\* file is a well-formed JSON object equal to the in-memory mapping and
\* reflecting both toggles, and each request's returned value is the value that
\* request itself set.
C15_NoLostUpdate ==
    BothReturned =>
        /\ pfile = ToJson(addressed_errors)
        /\ \A t \in Threads : Has(LoadPersistence(pfile), threads[t].id)
        /\ threads[1].id # threads[2].id =>
              \A t \in Threads :
                 Get(LoadPersistence(pfile), threads[t].id, ~threads[t].set) = threads[t].set
        /\ \A t \in Threads : threads[t].ret = threads[t].set

====
